---- MODULE Spec2Model ----
(***************************************************************************)
(* Model of scripts/generate_logs.py: the JSONL log generator of LazyTail. *)
(*                                                                         *)
(*   Spec          the driver main() on small record counts, the content   *)
(*                 of every written line kept in the state                 *)
(*   SpecProgress  the same driver on record counts around multiples of    *)
(*                 the progress interval (100,000), the file kept as its   *)
(*                 line count                                              *)
(*   SpecEntry     generate_log_entry(timestamp), every random draw a      *)
(*                 nondeterministic choice                                 *)
(*                                                                         *)
(* Times are offsets from start_time = 2026-01-31T00:00:00, held as        *)
(* [ms, us] with 0 <= us < 1000, the way timedelta keeps microseconds.     *)
(* A write is modelled at the granularity of one record: f.write either    *)
(* appends the whole line or raises.                                       *)
(***************************************************************************)
EXTENDS Integers, Sequences, FiniteSets, TLC

VARIABLES
    pc,             \* position of main(): start, open, loop, progress, size, done, aborted;
                    \* of generate_log_entry: gen, returned
    num_lines,      \* int(sys.argv[1])
    time_increment, \* timedelta of line 205, or None before it is computed
    i,              \* loop variable of line 208
    exists,         \* whether output_file exists on disk
    file,           \* the lines of output_file (content kept when KeepLines(num_lines))
    nlines,         \* the number of lines of output_file
    handle,         \* f: "none", "open", "closed"
    reports,        \* progress lines printed by line 217
    exit,           \* "running", "ok", or the uncaught exception
    failed,         \* TRUE once an f.write has raised
    size,           \* os.path.getsize(output_file) of line 223, -1 before
    unit,           \* scale of the "File size" line, "" before
    timestamp,      \* argument of generate_log_entry
    entry           \* result of generate_log_entry, None before

vars == <<pc, num_lines, time_increment, i, exists, file, nlines, handle, reports,
          exit, failed, size, unit, timestamp, entry>>

None == [none |-> TRUE]

----------------------------------------------------------------------------
(* Bounds *)

MaxLines == 8       \* Spec: num_lines ranges over -MaxNeg .. MaxLines
MaxNeg == 2
MaxReports == 2     \* SpecProgress: num_lines up to MaxReports * 100,000
SampleCount == 7    \* SpecEntry: timestamps are those of a run of SampleCount records

(* Program constants *)

DayMs == 86400000           \* line 205
JitterMs == 500             \* line 211
ProgressEvery == 100000     \* line 216
GB == 1000000000            \* line 224
MB == 1000000               \* line 226
KB == 1000                  \* line 229

----------------------------------------------------------------------------
(* random.randint(a, b), a <= b: the draws considered are the two ends.      *)
RandInt(a, b) == {a, b}

(* random.choice(seq) and random.choices(seq, weights)[0], weights all > 0.  *)
Choice(seq) == {seq[k] : k \in 1..Len(seq)}

Abs(x) == IF x < 0 THEN -x ELSE x

(* Rounding of num/den (num >= 0, den > 0) to the nearest integer, ties to   *)
(* even: the rounding timedelta applies to fractional microseconds.          *)
RoundHalfEven(num, den) ==
    LET q == num \div den
        r == num % den
    IN  IF 2 * r > den THEN q + 1
        ELSE IF 2 * r < den THEN q
        ELSE q + (q % 2)

(* timedelta(milliseconds=86400000 / n), n # 0, to microsecond resolution.   *)
(* For n < 0 the value is the negation of the value for -n.                  *)
TimeIncrement(n) ==
    LET a == Abs(n)
        s == IF n < 0 THEN -1 ELSE 1
        f == RoundHalfEven((DayMs % a) * 1000, a)
    IN  [ms |-> s * ((DayMs \div a) + (f \div 1000)), us |-> s * (f % 1000)]

(* Variant of Timestamp: the increment multiplied by k + 1.                  *)
TimestampMut(inc, k, j) ==
    [ms |-> (k + 1) * inc.ms + (((k + 1) * inc.us) \div 1000) + j,
     us |-> ((k + 1) * inc.us) % 1000]

(* start_time + time_increment * k + timedelta(milliseconds=j), k >= 0,      *)
(* time_increment >= 0 (lines 209-211).                                      *)
Timestamp(inc, k, j) ==
    [ms |-> k * inc.ms + ((k * inc.us) \div 1000) + j, us |-> (k * inc.us) % 1000]

(* Variant of InRange: the bound included.                                   *)
InRangeMut(k, n) == 0 <= k /\ k <= n

(* k in range(n), line 208.                                                  *)
InRange(k, n) == 0 <= k /\ k < n

(* Variant of ProgressDue: due one record late.                              *)
ProgressDueMut(c) == c % ProgressEvery = 1

(* (i + 1) % 100000 == 0, line 216, c = i + 1.                               *)
ProgressDue(c) == c % ProgressEvery = 0

(* (i + 1) * 100 // num_lines, line 217, c = i + 1, n > 0.                   *)
Percent(c, n) == (c * 100) \div n

(* Variant of SizeUnit: thresholds inclusive.                                *)
SizeUnitMut(s) ==
    IF s >= GB THEN "GB" ELSE IF s >= MB THEN "MB" ELSE "KB"

(* Lines 224-229: the scale of the printed file size.                        *)
SizeUnit(s) ==
    IF s > GB THEN "GB" ELSE IF s > MB THEN "MB" ELSE "KB"

(* The values os.path.getsize may return for a file of n lines: 0 for an     *)
(* empty file, otherwise a size around one of the thresholds.                *)
Sizes(n) ==
    IF n = 0 THEN {0}
    ELSE {s \in {KB - 1, KB, KB + 1, MB - 1, MB, MB + 1, GB - 1, GB, GB + 1} : s >= n}

(* The line kept for record k: its index and the timestamp it was generated  *)
(* from (the other fields of the record are those of GenerateLogEntry).      *)
Line(k, ts) == [idx |-> k, ts |-> ts]

StaleLine == [idx |-> -1, ts |-> [ms |-> 0, us |-> 0]]

KeepLines(n) == n <= MaxLines

----------------------------------------------------------------------------
(* main() *)

Idle == /\ timestamp = None
        /\ entry = None

InitMain(n, e) ==
    /\ pc = "start"
    /\ num_lines = n
    /\ time_increment = None
    /\ i = 0
    /\ exists = e
    /\ file = IF e THEN <<StaleLine>> ELSE <<>>
    /\ nlines = IF e THEN 1 ELSE 0
    /\ handle = "none"
    /\ reports = <<>>
    /\ exit = "running"
    /\ failed = FALSE
    /\ size = -1
    /\ unit = ""
    /\ Idle

Init == \E n \in (0 - MaxNeg)..MaxLines, e \in BOOLEAN : InitMain(n, e)

BigCounts == {k * ProgressEvery + d : k \in 1..MaxReports, d \in {-1, 0, 1}}

InitProgress == \E n \in BigCounts : InitMain(n, FALSE)

(* Variant of ComputeIncrement: the division error is swallowed and main()   *)
(* returns.                                                                  *)
ComputeIncrementSwallow ==
    /\ pc = "start"
    /\ IF num_lines = 0
          THEN /\ pc' = "done"
               /\ exit' = "ok"
               /\ UNCHANGED time_increment
          ELSE /\ time_increment' = TimeIncrement(num_lines)
               /\ pc' = "open"
               /\ UNCHANGED exit
    /\ UNCHANGED <<num_lines, i, exists, file, nlines, handle, reports, failed, size,
                   unit, timestamp, entry>>

(* Variant of ComputeIncrement: every non-positive count is rejected.        *)
ComputeIncrementStrict ==
    /\ pc = "start"
    /\ IF num_lines <= 0
          THEN /\ pc' = "aborted"
               /\ exit' = IF num_lines = 0 THEN "ZeroDivisionError" ELSE "ValueError"
               /\ UNCHANGED time_increment
          ELSE /\ time_increment' = TimeIncrement(num_lines)
               /\ pc' = "open"
               /\ UNCHANGED exit
    /\ UNCHANGED <<num_lines, i, exists, file, nlines, handle, reports, failed, size,
                   unit, timestamp, entry>>

(* Line 205: 86400000 / num_lines raises ZeroDivisionError for 0.            *)
ComputeIncrement ==
    /\ pc = "start"
    /\ IF num_lines = 0
          THEN /\ pc' = "aborted"
               /\ exit' = "ZeroDivisionError"
               /\ UNCHANGED time_increment
          ELSE /\ time_increment' = TimeIncrement(num_lines)
               /\ pc' = "open"
               /\ UNCHANGED exit
    /\ UNCHANGED <<num_lines, i, exists, file, nlines, handle, reports, failed, size,
                   unit, timestamp, entry>>

(* Line 207: open(output_file, "w") creates or truncates the file.           *)
OpenFile ==
    /\ pc = "open"
    /\ handle' = "open"
    /\ exists' = TRUE
    /\ file' = <<>>
    /\ nlines' = 0
    /\ i' = 0
    /\ pc' = "loop"
    /\ UNCHANGED <<num_lines, time_increment, reports, exit, failed, size, unit,
                   timestamp, entry>>

(* Line 207: open raises (unwritable path); nothing on disk changes.         *)
OpenFail ==
    /\ pc = "open"
    /\ pc' = "aborted"
    /\ exit' = "OSError"
    /\ UNCHANGED <<num_lines, time_increment, i, exists, file, nlines, handle, reports,
                   failed, size, unit, timestamp, entry>>

(* Lines 208-214: one record generated from the jittered timestamp and       *)
(* written as one line.                                                      *)
WriteRecord ==
    /\ pc = "loop"
    /\ InRange(i, num_lines)
    /\ \E j \in RandInt(0 - JitterMs, JitterMs) :
          file' = IF KeepLines(num_lines)
                     THEN Append(file, Line(i, Timestamp(time_increment, i, j)))
                     ELSE file
    /\ nlines' = nlines + 1
    /\ pc' = "progress"
    /\ UNCHANGED <<num_lines, time_increment, i, exists, handle, reports, exit, failed,
                   size, unit, timestamp, entry>>

(* Variant of WriteFail: the failed write is tried again.                    *)
WriteFailRetry ==
    /\ pc = "loop"
    /\ InRange(i, num_lines)
    /\ ~failed
    /\ failed' = TRUE
    /\ UNCHANGED <<pc, num_lines, time_increment, i, exists, file, nlines, handle,
                   reports, exit, size, unit, timestamp, entry>>

(* Line 214: f.write raises (disk full); the with block closes f and the     *)
(* exception leaves main().                                                  *)
WriteFail ==
    /\ pc = "loop"
    /\ InRange(i, num_lines)
    /\ failed' = TRUE
    /\ handle' = "closed"
    /\ pc' = "aborted"
    /\ exit' = "OSError"
    /\ UNCHANGED <<num_lines, time_increment, i, exists, file, nlines, reports, size,
                   unit, timestamp, entry>>

(* Lines 216-217, then the next iteration of line 208.                       *)
Progress ==
    /\ pc = "progress"
    /\ reports' = IF ProgressDue(i + 1)
                     THEN Append(reports, [count |-> i + 1,
                                           pct |-> Percent(i + 1, num_lines)])
                     ELSE reports
    /\ i' = i + 1
    /\ pc' = "loop"
    /\ UNCHANGED <<num_lines, time_increment, exists, file, nlines, handle, exit, failed,
                   size, unit, timestamp, entry>>

(* Line 208 exhausted: the with block of line 207 ends and closes f.         *)
CloseFile ==
    /\ pc = "loop"
    /\ ~InRange(i, num_lines)
    /\ handle' = "closed"
    /\ pc' = "size"
    /\ UNCHANGED <<num_lines, time_increment, i, exists, file, nlines, reports, exit,
                   failed, size, unit, timestamp, entry>>

(* Lines 219-229: the final size report; main() returns.                     *)
ReportSize ==
    /\ pc = "size"
    /\ \E s \in Sizes(nlines) :
          /\ size' = s
          /\ unit' = SizeUnit(s)
    /\ pc' = "done"
    /\ exit' = "ok"
    /\ UNCHANGED <<num_lines, time_increment, i, exists, file, nlines, handle, reports,
                   failed, timestamp, entry>>

Next ==
    \/ ComputeIncrement
    \/ OpenFile
    \/ OpenFail
    \/ WriteRecord
    \/ WriteFail
    \/ Progress
    \/ CloseFile
    \/ ReportSize

Spec == Init /\ [][Next]_vars

SpecProgress == InitProgress /\ [][Next]_vars

----------------------------------------------------------------------------
(* generate_log_entry(timestamp) *)

(* Service names are sequences of characters, so that startswith and `in`    *)
(* are computed on the text.                                                 *)
SERVICES ==
    <<<<"a", "p", "i", "-", "g", "a", "t", "e", "w", "a", "y">>,
      <<"a", "p", "i", "-", "u", "s", "e", "r", "s">>,
      <<"a", "p", "i", "-", "o", "r", "d", "e", "r", "s">>,
      <<"a", "p", "i", "-", "p", "a", "y", "m", "e", "n", "t", "s">>,
      <<"a", "p", "i", "-", "i", "n", "v", "e", "n", "t", "o", "r", "y">>,
      <<"w", "o", "r", "k", "e", "r", "-", "e", "m", "a", "i", "l">>,
      <<"w", "o", "r", "k", "e", "r", "-", "n", "o", "t", "i", "f", "i", "c", "a", "t", "i", "o", "n", "s">>,
      <<"w", "o", "r", "k", "e", "r", "-", "a", "n", "a", "l", "y", "t", "i", "c", "s">>,
      <<"c", "a", "c", "h", "e", "-", "r", "e", "d", "i", "s">>,
      <<"d", "b", "-", "p", "o", "s", "t", "g", "r", "e", "s">>>>

LEVELS == <<"debug", "info", "warn", "error">>

PATHS ==
    <<"/api/v1/users",
      "/api/v1/users/{id}",
      "/api/v1/orders",
      "/api/v1/orders/{id}",
      "/api/v1/payments",
      "/api/v1/inventory",
      "/api/v1/health",
      "/api/v1/metrics",
      "/api/v2/users",
      "/api/v2/orders">>

HTTP_METHODS == <<"GET", "POST", "PUT", "DELETE", "PATCH">>

MESSAGES ==
    [debug |-> <<"Cache lookup for key: {key}",
                "Query executed in {latency}ms",
                "Processing batch item {idx} of {total}",
                "Loading configuration from {source}",
                "Connection pool stats: active={active}, idle={idle}",
                "Parsing request body",
                "Validating input parameters",
                "Serializing response">>,
     info  |-> <<"Request processed",
                "User login successful",
                "Order created",
                "Payment processed",
                "Email sent to {email}",
                "Cache updated for key: {key}",
                "Health check passed",
                "Service started",
                "Batch job completed",
                "New user registered">>,
     warn  |-> <<"Rate limit approaching: {count}/1000",
                "Slow query detected: {latency}ms",
                "Retry attempt {attempt} of 3",
                "Connection pool near capacity: {pct}%",
                "Deprecated API version used",
                "High memory usage: {pct}%",
                "Queue size growing: {count}",
                "Certificate expires in {days} days">>,
     error |-> <<"Failed to connect to database",
                "Authentication failed for user {user_id}",
                "Payment processing failed",
                "Timeout waiting for response",
                "Invalid request format",
                "Service unavailable",
                "Rate limit exceeded",
                "Out of memory",
                "Disk space critical",
                "Connection refused">>]

STATUS_CODES ==
    [debug |-> <<200>>,
     info  |-> <<200, 201, 204>>,
     warn  |-> <<400, 401, 403, 404, 429>>,
     error |-> <<500, 502, 503, 504, 400, 401, 403>>]

EMAIL_TEMPLATES == <<"welcome", "reset", "newsletter", "receipt">>

CHANNELS == <<"push", "sms", "webhook">>

USER_AGENTS == <<"Mozilla/5.0", "curl/7.68.0", "Python/3.9", "Go-http-client/1.1">>

ApiPrefix == <<"a", "p", "i", "-">>
WorkerPrefix == <<"w", "o", "r", "k", "e", "r", "-">>
CachePrefix == <<"c", "a", "c", "h", "e", "-">>
DbPrefix == <<"d", "b", "-">>
Users == <<"u", "s", "e", "r", "s">>
Orders == <<"o", "r", "d", "e", "r", "s">>
Email == <<"e", "m", "a", "i", "l">>
Notifications == <<"n", "o", "t", "i", "f", "i", "c", "a", "t", "i", "o", "n", "s">>

(* s.startswith(p) *)
StartsWith(s, p) == Len(s) >= Len(p) /\ SubSeq(s, 1, Len(p)) = p

(* sub in s *)
Contains(s, sub) ==
    \E k \in 1..(Len(s) - Len(sub) + 1) : SubSeq(s, k, k + Len(sub) - 1) = sub

(* random.choice over a list whose element no branch reads: the draws        *)
(* considered are the first and the last element.                            *)
ChoiceEnds(seq) == {seq[1], seq[Len(seq)]}

(* f"{random.randint(0, 0xFFFFFFFF):08x}" at the two ends of the range.      *)
HexWord == {"00000000", "ffffffff"}

(* timestamp.isoformat() + "Z": whole seconds since start_time, and the six  *)
(* digit fraction, which isoformat leaves out when it is zero.               *)
IsoFormatZ(ts) ==
    IF ts.ms % 1000 = 0 /\ ts.us = 0
       THEN [sec |-> ts.ms \div 1000, suffix |-> "Z"]
       ELSE [sec |-> ts.ms \div 1000, frac |-> (ts.ms % 1000) * 1000 + ts.us,
             suffix |-> "Z"]

Empty == [f \in {} |-> 0]

(* Variant of Latency: error treated as slow too.                            *)
LatencyMut(level) ==
    IF level \notin {"warn", "error"} THEN RandInt(1, 500) ELSE RandInt(500, 5000)

(* Line 153 *)
Latency(level) ==
    IF level # "warn" THEN RandInt(1, 500) ELSE RandInt(500, 5000)

(* Variant of Status: the codes of error for every level.                    *)
StatusMut(level) == Choice(STATUS_CODES["error"])

(* Line 154 *)
Status(level) == Choice(STATUS_CODES[level])

(* Variant of HasQueueDepth: error only.                                     *)
HasQueueDepthMut(level) == level \in {"error"}

(* Line 174 *)
HasQueueDepth(level) == level \in {"warn", "error"}

(* Lines 156-161; amount is round(random.uniform(10, 500), 2) in hundredths. *)
ApiExtra(level, service) ==
    LET users == IF Contains(service, Users)
                    THEN {"user_id" :> <<"u", n>> : n \in RandInt(1000, 9999)}
                    ELSE {Empty}
        orders == IF Contains(service, Orders)
                     THEN {"order_id" :> <<"ord-", n>> : n \in RandInt(10000, 99999)}
                     ELSE {Empty}
        amount == IF Contains(service, Orders) /\ level = "info"
                     THEN {"amount" :> a : a \in RandInt(1000, 50000)}
                     ELSE {Empty}
    IN  {u @@ o @@ a : u \in users, o \in orders, a \in amount}

(* Lines 150-175: the fields added for the service type.                     *)
Contextual(level, service) ==
    IF StartsWith(service, ApiPrefix)
       THEN {("path" :> p) @@ ("method" :> m) @@ ("latency" :> l) @@ ("status" :> s) @@ x :
                p \in ChoiceEnds(PATHS), m \in Choice(HTTP_METHODS),
                l \in Latency(level), s \in Status(level),
                x \in ApiExtra(level, service)}
    ELSE IF StartsWith(service, WorkerPrefix)
       THEN {("batch_size" :> b) @@ ("processed" :> d) @@ t @@ c :
                b \in RandInt(10, 1000), d \in RandInt(0, 1000),
                t \in IF Contains(service, Email)
                         THEN {"template" :> e : e \in ChoiceEnds(EMAIL_TEMPLATES)}
                         ELSE {Empty},
                c \in IF Contains(service, Notifications)
                         THEN {"channel" :> e : e \in ChoiceEnds(CHANNELS)}
                         ELSE {Empty}}
    ELSE IF StartsWith(service, CachePrefix) \/ StartsWith(service, DbPrefix)
       THEN {("connections" :> c) @@ ("queries_per_sec" :> q) @@ d :
                c \in RandInt(1, 100), q \in RandInt(100, 10000),
                d \in IF HasQueueDepth(level)
                         THEN {"queue_depth" :> n : n \in RandInt(100, 1000)}
                         ELSE {Empty}}
    ELSE {Empty}

(* Lines 178-188: random.random() < 0.2 *)
Request ==
    {Empty} \cup
    {"request" :> [id |-> <<"req-", n>>, client_ip |-> <<192, 168, a, b>>, user_agent |-> u] :
        n \in RandInt(100000, 999999), a \in RandInt(1, 255), b \in RandInt(1, 255),
        u \in ChoiceEnds(USER_AGENTS)}

(* Lines 191-193: random.random() < 0.3 *)
Trace ==
    {Empty} \cup
    {("trace_id" :> <<h, l>>) @@ ("span_id" :> s) : h \in HexWord, l \in HexWord, s \in HexWord}

(* Lines 121-147; msg holds the template drawn, its placeholders unfilled.   *)
Base(ts, level, service, msg) ==
    ("timestamp" :> IsoFormatZ(ts)) @@ ("level" :> level) @@ ("service" :> service)
        @@ ("msg" :> msg)

(* The timestamps generate_log_entry is applied to. *)
Timestamps ==
    {Timestamp(TimeIncrement(SampleCount), k, j) :
        k \in {0, SampleCount - 1}, j \in {0 - JitterMs}}
    \cup {Timestamp(TimeIncrement(SampleCount), 0, 0)}

InitEntry ==
    /\ pc = "gen"
    /\ timestamp \in Timestamps
    /\ entry = None
    /\ num_lines = 0
    /\ time_increment = None
    /\ i = 0
    /\ exists = FALSE
    /\ file = <<>>
    /\ nlines = 0
    /\ handle = "none"
    /\ reports = <<>>
    /\ exit = "running"
    /\ failed = FALSE
    /\ size = -1
    /\ unit = ""

GenerateLogEntry ==
    /\ pc = "gen"
    /\ \E level \in Choice(LEVELS), service \in Choice(SERVICES) :
          \E msg \in ChoiceEnds(MESSAGES[level]), c \in Contextual(level, service),
             r \in Request, t \in Trace :
                entry' = Base(timestamp, level, service, msg) @@ c @@ r @@ t
    /\ pc' = "returned"
    /\ UNCHANGED <<num_lines, time_increment, i, exists, file, nlines, handle, reports,
                   exit, failed, size, unit, timestamp>>

NextEntry == GenerateLogEntry

SpecEntry == InitEntry /\ [][NextEntry]_vars

----------------------------------------------------------------------------
(* Properties of main() *)

Terminated == pc \in {"done", "aborted"}

Opened == handle # "none"

(* The file holds exactly the records 0 .. n-1, in index order, each one     *)
(* generated from a timestamp main() can compute for its index.              *)
HoldsRecords(n) ==
    /\ nlines = n
    /\ KeepLines(num_lines) =>
          /\ Len(file) = n
          /\ \A k \in 1..Len(file) :
                /\ file[k].idx = k - 1
                /\ \E j \in RandInt(0 - JitterMs, JitterMs) :
                      file[k].ts = Timestamp(time_increment, k - 1, j)

(* C1: for num_lines = N > 0, a run that completes normally leaves a file of *)
(* exactly N lines, line k being the record generated for index k, in        *)
(* increasing index order with none skipped, duplicated or reordered.        *)
C1_FileHoldsAllRecords ==
    (pc = "done" /\ num_lines > 0) => HoldsRecords(num_lines)

C1_Witness ==
    /\ pc = "done"
    /\ num_lines > 1
    /\ Len(file) = num_lines
    /\ file[num_lines].idx = num_lines - 1

(* N * (timestamp - exact nominal) of a line, in microseconds, the exact     *)
(* nominal being idx * 86,400,000 / N ms.                                    *)
DeviationTimesN(l, n) ==
    ((l.ts.ms - l.idx * (DayMs \div n)) * 1000 + l.ts.us) * n
        - l.idx * (DayMs % n) * 1000

(* timestamp - idx * time_increment of a line, in microseconds.              *)
JitterOf(l, inc) ==
    (l.ts.ms - l.idx * inc.ms) * 1000 + l.ts.us - l.idx * inc.us

(* b >= a - 1000 ms *)
WithinTolerance(a, b) ==
    \/ b.ms - a.ms > 0 - 2 * JitterMs
    \/ b.ms - a.ms = 0 - 2 * JitterMs /\ b.us >= a.us

Ordered ==
    \A a, b \in 1..Len(file) : a < b => WithinTolerance(file[a].ts, file[b].ts)

NominalInWindow ==
    \A k \in 1..Len(file) :
        /\ 0 <= file[k].idx * DayMs
        /\ file[k].idx * DayMs < num_lines * DayMs

(* The whole milliseconds of a line's timestamp are within reach of the      *)
(* nominal of its index (this keeps the microsecond arithmetic below small). *)
Near(l, n) ==
    /\ Abs(l.ts.ms - l.idx * (DayMs \div n)) <= 2 * JitterMs + l.idx
    /\ Abs(l.ts.ms - l.idx * time_increment.ms) <= 2 * JitterMs + l.idx

(* C2 as stated: for N > 0 every written timestamp lies within 500 ms of the *)
(* exact nominal start + i * (86,400,000 / N) ms, timestamps are             *)
(* non-decreasing within 1000 ms, and every nominal lies in the 24 h window. *)
C2_Original ==
    (Opened /\ num_lines > 0) =>
        /\ \A k \in 1..Len(file) :
              /\ Near(file[k], num_lines)
              /\ Abs(DeviationTimesN(file[k], num_lines))
                    <= JitterMs * 1000 * num_lines
        /\ Ordered
        /\ NominalInWindow

(* C2 amended: for N > 0 every written timestamp lies within 500 ms of       *)
(* start + i * inc, inc being 86,400,000 / N ms rounded to a whole number of *)
(* microseconds, hence within 500 ms + i * 0.5 us of the exact nominal;      *)
(* timestamps are non-decreasing within 1000 ms, and every exact nominal     *)
(* lies in the 24 h window.                                                  *)
C2_TimestampNearRoundedNominal ==
    (Opened /\ num_lines > 0) =>
        /\ \A k \in 1..Len(file) :
              /\ Near(file[k], num_lines)
              /\ Abs(JitterOf(file[k], time_increment)) <= JitterMs * 1000
              /\ 2 * Abs(DeviationTimesN(file[k], num_lines))
                    <= 2 * JitterMs * 1000 * num_lines + file[k].idx * num_lines
        /\ Ordered
        /\ NominalInWindow

C2_Witness ==
    /\ pc = "done"
    /\ num_lines = 7
    /\ Len(file) = 7
    /\ DeviationTimesN(file[7], 7) > JitterMs * 1000 * 7
    /\ file[1].ts.ms < 0

(* C6: with num_lines = 0 no record is ever written, and the run ends either *)
(* normally with an existing file of zero lines or with an error.            *)
C6_ZeroEmptyOrRejected ==
    num_lines = 0 =>
        /\ \A k \in 1..Len(file) : file[k].idx < 0
        /\ Terminated =>
              \/ exit = "ok" /\ exists /\ nlines = 0
              \/ exit \notin {"ok", "running"}

C6_Witness ==
    /\ num_lines = 0
    /\ pc = "aborted"
    /\ exit = "ZeroDivisionError"
    /\ handle = "none"

(* C7 as stated: the size is reported in one of bytes, KB, MB, GB: GB above  *)
(* 1,000,000,000, MB above 1,000,000, KB from 1,000 bytes, bytes below.      *)
C7_Original ==
    pc = "done" =>
        unit = IF size > GB THEN "GB"
               ELSE IF size > MB THEN "MB"
               ELSE IF size >= KB THEN "KB"
               ELSE "bytes"

(* C7 amended: the size is reported in exactly one of the three scales KB,   *)
(* MB, GB: GB above 1,000,000,000, MB above 1,000,000 and KB for every other *)
(* size, sizes below 1,000 bytes included.                                   *)
C7_ThreeScales ==
    pc = "done" =>
        /\ unit \in {"KB", "MB", "GB"}
        /\ unit = "GB" <=> size > GB
        /\ unit = "MB" <=> (size > MB /\ size <= GB)
        /\ unit = "KB" <=> size <= MB

C7_Witness ==
    /\ pc = "done"
    /\ num_lines > 0
    /\ size = KB - 1
    /\ unit = "KB"

ReportsUpTo(c) ==
    [k \in 1..(c \div ProgressEvery) |->
        [count |-> k * ProgressEvery,
         pct |-> (k * ProgressEvery * 100) \div num_lines]]

(* C9: for N > 0 the progress reports are exactly those of the counts c that *)
(* are multiples of 100,000, in increasing order, the report of c printed    *)
(* after record c is written and before record c+1; each carries c and       *)
(* floor(c * 100 / N), never above 100 and 100 only when c = N.              *)
C9_ProgressReports ==
    num_lines > 0 =>
        /\ reports = ReportsUpTo(IF pc = "progress" THEN nlines - 1 ELSE nlines)
        /\ pc = "progress" => nlines = i + 1
        /\ pc = "done" => Len(reports) = num_lines \div ProgressEvery
        /\ \A k \in 1..Len(reports) :
              /\ reports[k].pct <= 100
              /\ reports[k].pct = 100 => reports[k].count = num_lines

C9_Witness ==
    /\ pc = "done"
    /\ num_lines = 2 * ProgressEvery
    /\ Len(reports) = 2
    /\ reports[1] = [count |-> ProgressEvery, pct |-> 50]
    /\ reports[2] = [count |-> 2 * ProgressEvery, pct |-> 100]

(* C10: a negative num_lines is not rejected: the file is created or         *)
(* truncated, no record is written, no progress is reported, and the run     *)
(* completes normally, reporting the size of an empty file; only a failure   *)
(* to open the file ends it otherwise.                                       *)
C10_NegativeNotRejected ==
    num_lines < 0 =>
        /\ \A k \in 1..Len(file) : file[k].idx < 0
        /\ reports = <<>>
        /\ exit \in {"running", "ok", "OSError"}
        /\ ~failed
        /\ Opened => exists /\ nlines = 0 /\ file = <<>>
        /\ pc = "aborted" => ~Opened
        /\ pc = "done" =>
              /\ exit = "ok"
              /\ handle = "closed"
              /\ size = 0
              /\ unit = "KB"

C10_Witness ==
    /\ num_lines < 0
    /\ pc = "done"
    /\ exit = "ok"
    /\ exists
    /\ nlines = 0
    /\ size = 0

----------------------------------------------------------------------------
(* Properties of generate_log_entry *)

IsApi(e) == StartsWith(e["service"], ApiPrefix)

IsStore(e) == StartsWith(e["service"], CachePrefix) \/ StartsWith(e["service"], DbPrefix)

(* C3: every record of an api- service has path, method, latency and status, *)
(* and its status is in the code set of its level: debug {200}; info {200,   *)
(* 201, 204}; warn {400, 401, 403, 404, 429}; error {500, 502, 503, 504,     *)
(* 400, 401, 403}.                                                           *)
C3_ApiFieldsAndStatus ==
    (pc = "returned" /\ IsApi(entry)) =>
        /\ {"path", "method", "latency", "status"} \subseteq DOMAIN entry
        /\ entry["level"] = "debug" => entry["status"] \in {200}
        /\ entry["level"] = "info" => entry["status"] \in {200, 201, 204}
        /\ entry["level"] = "warn" => entry["status"] \in {400, 401, 403, 404, 429}
        /\ entry["level"] = "error" =>
              entry["status"] \in {500, 502, 503, 504, 400, 401, 403}

C3_Witness ==
    /\ pc = "returned"
    /\ IsApi(entry)
    /\ entry["level"] = "warn"
    /\ entry["status"] = 429
    /\ {"path", "method", "latency"} \subseteq DOMAIN entry

(* C4: in a record of an api- service, latency is an integer in [500, 5000]  *)
(* when the level is warn and in [1, 500] for every other level.             *)
C4_LatencyRange ==
    (pc = "returned" /\ IsApi(entry)) =>
        IF entry["level"] = "warn"
           THEN entry["latency"] \in 500..5000
           ELSE entry["latency"] \in 1..500

C4_Witness ==
    /\ pc = "returned"
    /\ IsApi(entry)
    /\ entry["level"] = "error"
    /\ entry["latency"] = 500

(* C5: a record of a cache- or db- service has connections and               *)
(* queries_per_sec, and has queue_depth exactly when its level is warn or    *)
(* error; a record of any other service has none of the three.               *)
C5_StoreFields ==
    pc = "returned" =>
        IF IsStore(entry)
           THEN /\ {"connections", "queries_per_sec"} \subseteq DOMAIN entry
                /\ "queue_depth" \in DOMAIN entry <=> entry["level"] \in {"warn", "error"}
           ELSE {"connections", "queries_per_sec", "queue_depth"} \cap DOMAIN entry = {}

C5_Witness ==
    /\ pc = "returned"
    /\ IsStore(entry)
    /\ entry["level"] = "warn"
    /\ {"connections", "queries_per_sec", "queue_depth"} \subseteq DOMAIN entry

====
